---- MODULE Spec2Model ----
(***************************************************************************)
(* The a11y-tracker client: the xhr transport (post), the A11yReporter     *)
(* class with its process-wide configuration, and the Cypress integration  *)
(* (setupCypress / cy.reportA11y).                                         *)
(*                                                                         *)
(* JavaScript values that the code tests for truthiness are records        *)
(* [t, s]: t is the type ("undefined", "string" or "object") and s the     *)
(* string as a sequence of characters, a run of characters that no         *)
(* operation looks into being written as one element.  Texts that are only *)
(* concatenated (log names, assertion messages) are TLA+ strings.          *)
(***************************************************************************)
EXTENDS Integers, Sequences, FiniteSets, TLC

VARIABLES
  A11yReporter,  \* the class's static fields trackerURI, revision, project, key
  reporter,      \* the A11yReporter instance in use, or None
  promise,       \* the promise returned by post / report
  xhr,           \* the XHR object created by post
  network,       \* requests put on the wire by xhr.send
  console,       \* console.warn calls
  call,          \* the operation that ran last, with its options
  env,           \* process.env and Cypress.env, fixed for a run
  registered,    \* whether the reportA11y command has been added
  pc,            \* where the current reportA11y invocation stands
  cmd,           \* the opts of the current reportA11y invocation
  result,        \* the closure variable result: the scan's violations
  cyLog,         \* Cypress.log entries
  failure,       \* how the invocation failed, if it did
  events         \* what the invocation has done so far, in order

\* ------------------------------------------------------------------ bounds

MaxSlashes == 2
MaxViolations == 2

\* ------------------------------------------------------- JavaScript values

Undefined == [t |-> "undefined", s |-> <<>>]
Str(s) == [t |-> "string", s |-> s]

\* a defined value that is passed through and never looked into
Obj(x) == [t |-> "object", s |-> <<x>>]

\* !v is false: undefined and the empty string are falsy
Truthy(v) == v.t = "string" /\ v.s # <<>>

\* a || b
Or(a, b) == IF Truthy(a) THEN a ELSE b

Slashes(k) == [i \in 1..k |-> "/"]

\* the empty string, "/", and a host followed by k slashes
URIStrings ==
  {<<>>, <<"/">>} \cup { <<"h">> \o Slashes(k) : k \in 0..MaxSlashes }
URIVals == {Undefined} \cup { Str(s) : s \in URIStrings }
RevisionVals == {Undefined, Str(<<>>), Str(<<"a", "b", "c">>)}
ProjectVals == {Undefined, Str(<<"d">>)}
KeyVals == {Undefined, Str(<<"k">>)}

Fields == {"trackerURI", "revision", "project", "key"}

NoOpts == [trackerURI |-> Undefined, revision |-> Undefined,
           project |-> Undefined, key |-> Undefined]

\* number of option fields that are present
Present(o) == Cardinality({f \in Fields : o[f] # Undefined})

\* option objects: at most one field present, or all of them
OptsSet ==
  { o \in [trackerURI : URIVals, revision : RevisionVals,
           project : ProjectVals, key : KeyVals] :
      Present(o) <= 1 \/ Present(o) = Cardinality(Fields) }

\* ------------------------------------------------------------ util functions

\* chomp that strips every trailing ch
RECURSIVE chompAll(_, _)
chompAll(str, ch) ==
  IF ~Truthy(str) THEN str
  ELSE IF str.s[Len(str.s)] = ch
       THEN chompAll(Str(SubSeq(str.s, 1, Len(str.s) - 1)), ch)
       ELSE str

chomp(str, ch) ==
  IF ~Truthy(str) THEN str
  ELSE IF str.s[Len(str.s)] = ch
       THEN Str(SubSeq(str.s, 1, Len(str.s) - 1))
       ELSE str

\* plural that never returns the singular form
pluralAlways(num, single, multiple) ==
  IF multiple = "" THEN single \o "s" ELSE multiple

\* the multiple argument, when not passed, is the falsy ""
plural(num, single, multiple) ==
  LET m == IF multiple = "" THEN single \o "s" ELSE multiple
  IN IF num = 1 THEN single ELSE m

\* ------------------------------------------------------------------- post

Statuses == {199, 200, 299, 300, 404}

NoPromise == [state |-> "none", value |-> "none"]
NoXhr == [state |-> "none", status |-> 0]

\* JSON.stringify of an object: properties whose value is undefined are
\* dropped, the others kept as key/value pairs
JSONstringify(data) ==
  { <<k, data[k]>> : k \in {f \in DOMAIN data : data[f] # Undefined} }

\* a check with no upper limit
IsAtLeast200(status) == status >= 200

\* check for 2xx
Is2xx(status) == status \div 100 = 2

Blank(data) ==
  [promise |-> [state |-> "resolved", value |-> "{}"],
   xhr |-> NoXhr,
   console |-> << [level |-> "warn",
                   text |-> "a11y-tracker URI is blank. would have posted:",
                   data |-> {}],
                  [level |-> "warn", text |-> "", data |-> {data}] >>,
   network |-> << >>]

Send(uri, data) ==
  [promise |-> [state |-> "pending", value |-> "none"],
   xhr |-> [state |-> "sent", status |-> 0],
   console |-> << >>,
   network |-> << [method |-> "POST", uri |-> uri, async |-> TRUE,
                   contentType |-> "application/json",
                   body |-> JSONstringify(data)] >>]

\* post that takes only undefined for a blank uri
postUndefinedOnly(uri, data) ==
  IF uri = Undefined THEN Blank(data) ELSE Send(uri, data)

\* the synchronous part of post: the promise it returns, the xhr it
\* creates, what it writes to the console and what it sends
post(uri, data) ==
  IF ~Truthy(uri) THEN Blank(data) ELSE Send(uri, data)

\* xhr.onload
onload(status) ==
  IF Is2xx(status)
  THEN [state |-> "resolved", value |-> "xhr.body"]
  ELSE [state |-> "rejected", value |-> "xhr"]

\* ------------------------------------------------------------ A11yReporter

None == [page |-> Undefined, scanName |-> Undefined, revision |-> Undefined,
         project |-> Undefined, key |-> Undefined, trackerURI |-> Undefined,
         live |-> FALSE]

new(page, scanName, opts) ==
  [page |-> page, scanName |-> scanName,
   revision |-> Or(opts.revision, A11yReporter.revision),
   project |-> Or(opts.project, A11yReporter.project),
   key |-> Or(opts.key, A11yReporter.key),
   trackerURI |-> chomp(Or(opts.trackerURI, A11yReporter.trackerURI), "/"),
   live |-> TRUE]

ApiPath == <<"/", "a", "p", "i", "/", "v", "1", "/", "s", "c", "a", "n", "s">>

\* scanURI that reads the static trackerURI when it is called
scanURIStatic(this) ==
  IF ~Truthy(A11yReporter.trackerURI) THEN Undefined
  ELSE Str(chomp(A11yReporter.trackerURI, "/").s \o ApiPath)

scanURI(this) ==
  IF ~Truthy(this.trackerURI) THEN Undefined
  ELSE Str(this.trackerURI.s \o ApiPath)

payload(this, axeResult) ==
  [revision |-> this.revision, scan_name |-> this.scanName,
   project_name |-> this.project, key |-> this.key,
   result |-> Obj(axeResult)]

report(this, axeResult) == post(scanURI(this), payload(this, axeResult))

\* configure that assigns trackerURI whatever opts holds
configureAssign(statics, opts) ==
  [trackerURI |-> opts.trackerURI,
   revision |-> IF Truthy(opts.revision) THEN opts.revision
                ELSE statics.revision,
   project |-> IF Truthy(opts.project) THEN opts.project
               ELSE statics.project,
   key |-> IF Truthy(opts.key) THEN opts.key ELSE statics.key]

\* the static fields after A11yReporter.configure(opts), from statics
configure(statics, opts) ==
  [trackerURI |-> IF Truthy(opts.trackerURI) THEN opts.trackerURI
                  ELSE statics.trackerURI,
   revision |-> IF Truthy(opts.revision) THEN opts.revision
                ELSE statics.revision,
   project |-> IF Truthy(opts.project) THEN opts.project
               ELSE statics.project,
   key |-> IF Truthy(opts.key) THEN opts.key ELSE statics.key]

\* ----------------------------------------------------------- scan results

ViolationKinds ==
  { [id |-> "color-contrast", impact |-> "serious", nodes |-> 3],
    [id |-> "image-alt", impact |-> "critical", nodes |-> 1] }

\* the i-th violation of the result that starts with the kind whose id is
\* first: the two kinds alternate
Violation(first, i) ==
  CHOOSE v \in ViolationKinds : (v.id = first) <=> (i % 2 = 1)

Results ==
  { [i \in 1..n |-> Violation(first, i)] :
      n \in 0..MaxViolations, first \in {v.id : v \in ViolationKinds} }

\* results handed to report() by a direct user of the class
DirectResults == { r \in Results : Len(r) = 1 /\ r[1].nodes = 1 }

\* ---------------------------------------------------- Cypress integration

RECURSIVE join(_, _)
join(out, sep) ==
  IF out = << >> THEN << >>
  ELSE IF Len(out) = 1 THEN out[1]
  ELSE out[1] \o sep \o join(Tail(out), sep)

HasTitle(title) == title # << >>

\* mocha is the chain of titles from the current runnable to the root
getTestNameFromMocha(mocha) == Str(join(SelectSeq(mocha, HasTitle), <<"::">>))

MochaChains ==
  { << <<"loads the login screen">>, <<"login">>, << >> >>,
    << <<"scan">>, << >> >> }

\* Cypress.env(name)
CypressEnv(name) == env.cypress[name]

\* the static fields after the configure call of setupCypress(globalOpts);
\* the source's object literal lacks the comma after its project line, and
\* is read here as the four properties it lists
setupCypress(statics, globalOpts) ==
  configure(statics,
    [trackerURI |-> Or(globalOpts.trackerURI, CypressEnv("A11Y_TRACKER_URI")),
     revision |-> Or(Or(globalOpts.revision, CypressEnv("A11Y_TRACKER_REVISION")),
                     CypressEnv("GIT_HASH")),
     project |-> Or(globalOpts.project, CypressEnv("A11Y_TRACKER_PROJECT")),
     key |-> Or(globalOpts.key, CypressEnv("A11Y_TRACKER_KEY"))])

\* the README's support file: the static fields after its two configure
\* calls and its setupCypress()
MyProject == Str(<<"my-accessible-project">>)
HerokuURI == Str(<<"https://a11y-tracker.herokuapp.com", "/">>)
OnMasterInCI ==
  /\ env.process["NODE_ENV"] = Str(<<"testing">>)
  /\ env.process["GITHUB_REF"] = Str(<<"refs/heads/master">>)

readme(statics) ==
  LET s1 == configure(statics,
              [trackerURI |-> Undefined, revision |-> Str(<<"<local>">>),
               project |-> MyProject, key |-> Undefined])
      s2 == IF OnMasterInCI
            THEN configure(s1,
                   [trackerURI |-> Or(env.process["A11Y_TRACKER_URI"], HerokuURI),
                    revision |-> env.process["GITHUB_GIT_HASH"],
                    key |-> env.process["A11Y_TRACKER_KEY"],
                    project |-> MyProject])
            ELSE s1
  IN setupCypress(s2, NoOpts)

Href == Str(<<"http://localhost/en/login">>)

CmdOpts == [page : {Undefined, Str(<<"/en/login">>)},
            name : {Undefined, Str(<<"login page">>)}]
NoCmd == [page |-> Undefined, name |-> Undefined]

\* first callback: the reporter built for the window
then1(opts, mocha) ==
  new(Or(opts.page, Href), Or(opts.name, getTestNameFromMocha(mocha)), NoOpts)

logEntry(violation) ==
  LET numNodes == violation.nodes
      nodeCount == IF numNodes = 1 THEN "" ELSE " (" \o ToString(numNodes) \o ")"
  IN [name |-> "a11y/" \o violation.impact,
      message |-> violation.id \o nodeCount,
      consoleProps |-> violation]

\* second callback that logs before it starts the report
then2LogFirst(this, _result) ==
  [report |-> report(this, _result),
   cyLog |-> [i \in 1..Len(_result) |-> logEntry(_result[i])],
   events |-> [i \in 1..Len(_result) |-> "log"]
                \o <<"report started", "report returned">>]

\* second callback: the report is started, the violations are logged, the
\* report promise is returned to the command chain
then2(this, _result) ==
  [report |-> report(this, _result),
   cyLog |-> [i \in 1..Len(_result) |-> logEntry(_result[i])],
   events |-> <<"report started">> \o [i \in 1..Len(_result) |-> "log"]
                \o <<"report returned">>]

\* a chain that goes on once the promise has settled either way
chainedSettled(p) ==
  IF p.state \in {"resolved", "rejected"} THEN "next" ELSE "wait"

\* what the command chain does with the promise a callback returned
chained(p) ==
  CASE p.state = "resolved" -> "next"
    [] p.state = "rejected" -> "fail"
    [] OTHER -> "wait"

\* third callback: assert.equal(n, 0, message)
then3(violations) ==
  LET n == Len(violations)
  IN [ok |-> n = 0,
      message |-> "a11y: " \o ToString(n) \o " " \o plural(n, "violation", "")
                    \o " " \o plural(n, "was", "were") \o " detected"]

NoFailure == [stage |-> "none", message |-> ""]

NoEnv ==
  [process |-> [n \in {"NODE_ENV", "GITHUB_REF", "A11Y_TRACKER_URI",
                       "GITHUB_GIT_HASH", "A11Y_TRACKER_KEY"} |-> Undefined],
   cypress |-> [n \in {"A11Y_TRACKER_URI", "A11Y_TRACKER_REVISION", "GIT_HASH",
                       "A11Y_TRACKER_PROJECT", "A11Y_TRACKER_KEY"} |-> Undefined]]

Set(v) == {Undefined, v}

Envs ==
  { [process |-> [NODE_ENV |-> ne, GITHUB_REF |-> ref, A11Y_TRACKER_URI |-> pu,
                  GITHUB_GIT_HASH |-> Str(<<"a", "b", "c">>),
                  A11Y_TRACKER_KEY |-> Str(<<"k">>)],
     cypress |-> [A11Y_TRACKER_URI |-> cu, A11Y_TRACKER_REVISION |-> cr,
                  GIT_HASH |-> ch, A11Y_TRACKER_PROJECT |-> cp,
                  A11Y_TRACKER_KEY |-> ck]] :
      ne \in Set(Str(<<"testing">>)), ref \in Set(Str(<<"refs/heads/master">>)),
      pu \in Set(Str(<<"h">>)),
      cu \in {Undefined, Str(<<"h">>), Str(<<"h", "/">>)},
      cr \in Set(Str(<<"r">>)), ch \in Set(Str(<<"g">>)),
      cp \in Set(Str(<<"d">>)), ck \in Set(Str(<<"k">>)) }

\* ------------------------------------------------------------------ state

cyVars == <<env, registered, pc, cmd, result, cyLog, failure, events>>
vars == <<A11yReporter, reporter, promise, xhr, network, console, call,
          env, registered, pc, cmd, result, cyLog, failure, events>>

Called(op, opts) == [op |-> op, opts |-> opts]

Init ==
  /\ A11yReporter = NoOpts
  /\ reporter = None
  /\ promise = NoPromise
  /\ xhr = NoXhr
  /\ network = << >>
  /\ console = << >>
  /\ call = Called("none", NoOpts)
  /\ env = NoEnv
  /\ registered = FALSE
  /\ pc = "idle"
  /\ cmd = NoCmd
  /\ result = << >>
  /\ cyLog = << >>
  /\ failure = NoFailure
  /\ events = << >>

\* A11yReporter.configure(opts)
Configure ==
  \E opts \in OptsSet :
    /\ A11yReporter' = configure(A11yReporter, opts)
    /\ call' = Called("configure", opts)
    /\ UNCHANGED <<reporter, promise, xhr, network, console, cyVars>>

\* new A11yReporter(page, scanName, opts): the instance in use is replaced
\* and with it the record of what the previous one did
Construct ==
  \E opts \in OptsSet :
    /\ reporter' = new(Str(<<"/some/url">>), Str(<<"error state">>), opts)
    /\ promise' = NoPromise
    /\ xhr' = NoXhr
    /\ network' = << >>
    /\ console' = << >>
    /\ call' = Called("new", opts)
    /\ UNCHANGED <<A11yReporter, cyVars>>

\* reporter.report(axeResult)
Report ==
  \E axeResult \in DirectResults :
    /\ reporter.live
    /\ promise.state = "none"
    /\ LET r == report(reporter, axeResult) IN
         /\ promise' = r.promise
         /\ xhr' = r.xhr
         /\ network' = network \o r.network
         /\ console' = console \o r.console
    /\ call' = Called("report", NoOpts)
    /\ UNCHANGED <<A11yReporter, reporter, cyVars>>

\* the response arrives: xhr.onload runs
XhrOnload ==
  \E status \in Statuses :
    /\ xhr.state = "sent"
    /\ xhr' = [state |-> "loaded", status |-> status]
    /\ promise' = onload(status)
    /\ call' = Called("onload", NoOpts)
    /\ UNCHANGED <<A11yReporter, reporter, network, console, cyVars>>

\* the request fails without a response: post registers no handler for it
XhrError ==
  /\ xhr.state = "sent"
  /\ xhr' = [state |-> "error", status |-> 0]
  /\ call' = Called("onerror", NoOpts)
  /\ UNCHANGED <<A11yReporter, reporter, promise, network, console, cyVars>>

Next == Configure \/ Construct \/ Report \/ XhrOnload \/ XhrError

Spec == Init /\ [][Next]_vars

\* ------------------------------------------------- the Cypress integration

InitCypress ==
  /\ A11yReporter = NoOpts
  /\ reporter = None
  /\ promise = NoPromise
  /\ xhr = NoXhr
  /\ network = << >>
  /\ console = << >>
  /\ call = Called("none", NoOpts)
  /\ env \in Envs
  /\ registered = FALSE
  /\ pc = "idle"
  /\ cmd = NoCmd
  /\ result = << >>
  /\ cyLog = << >>
  /\ failure = NoFailure
  /\ events = << >>

\* cypress/support/index.js as the README gives it
Readme ==
  /\ ~registered
  /\ A11yReporter' = readme(A11yReporter)
  /\ registered' = TRUE
  /\ call' = Called("setupCypress", NoOpts)
  /\ UNCHANGED <<reporter, promise, xhr, network, console,
                 env, pc, cmd, result, cyLog, failure, events>>

\* cy.reportA11y(context, opts): the command queues its chain
ReportA11y ==
  \E opts \in CmdOpts :
    /\ registered
    /\ pc = "idle"
    /\ pc' = "window"
    /\ cmd' = opts
    /\ call' = Called("reportA11y", NoOpts)
    /\ UNCHANGED <<A11yReporter, reporter, promise, xhr, network, console,
                   env, registered, result, cyLog, failure, events>>

\* cy.window().then(...): build the reporter, start the scan
Then1 ==
  \E mocha \in MochaChains :
    /\ pc = "window"
    /\ reporter' = then1(cmd, mocha)
    /\ events' = events \o <<"scan started">>
    /\ pc' = "scanning"
    /\ call' = Called("then1", NoOpts)
    /\ UNCHANGED <<A11yReporter, promise, xhr, network, console,
                   env, registered, cmd, result, cyLog, failure>>

\* the scan completes with _result: report, log, return the promise.  A
\* blank uri resolves the promise inside the call, before the logging
Then2 ==
  \E _result \in Results :
    /\ pc = "scanning"
    /\ result' = _result
    /\ LET r == then2(reporter, _result) IN
         /\ promise' = r.report.promise
         /\ xhr' = r.report.xhr
         /\ network' = network \o r.report.network
         /\ console' = console \o r.report.console
         /\ cyLog' = cyLog \o r.cyLog
         /\ events' = events \o <<"scan completed">> \o r.events
    /\ pc' = "awaitReport"
    /\ call' = Called("then2", NoOpts)
    /\ UNCHANGED <<A11yReporter, reporter, env, registered, cmd, failure>>

\* the report promise fulfilled: the assertion runs
Then3 ==
  /\ pc = "awaitReport"
  /\ chained(promise) = "next"
  /\ LET a == then3(result) IN
       /\ pc' = IF a.ok THEN "passed" ELSE "failed"
       /\ failure' = IF a.ok THEN NoFailure
                     ELSE [stage |-> "assert", message |-> a.message]
  /\ events' = events \o <<"assert">>
  /\ call' = Called("then3", NoOpts)
  /\ UNCHANGED <<A11yReporter, reporter, promise, xhr, network, console,
                 env, registered, cmd, result, cyLog>>

\* the report promise rejected: the command fails with the rejection
ReportFailed ==
  /\ pc = "awaitReport"
  /\ chained(promise) = "fail"
  /\ pc' = "failed"
  /\ failure' = [stage |-> "report", message |-> promise.value]
  /\ call' = Called("rejected", NoOpts)
  /\ UNCHANGED <<A11yReporter, reporter, promise, xhr, network, console,
                 env, registered, cmd, result, cyLog, events>>

\* the test is over and the next one may call cy.reportA11y()
NextTest ==
  /\ pc \in {"passed", "failed"}
  /\ pc' = "idle"
  /\ reporter' = None
  /\ promise' = NoPromise
  /\ xhr' = NoXhr
  /\ network' = << >>
  /\ console' = << >>
  /\ cmd' = NoCmd
  /\ result' = << >>
  /\ cyLog' = << >>
  /\ failure' = NoFailure
  /\ events' = << >>
  /\ call' = Called("none", NoOpts)
  /\ UNCHANGED <<A11yReporter, env, registered>>

NextCypress ==
  \/ Readme \/ ReportA11y \/ Then1 \/ Then2 \/ XhrOnload \/ XhrError
  \/ Then3 \/ ReportFailed \/ NextTest

SpecCypress == InitCypress /\ [][NextCypress]_vars

\* ------------------------------------------------------------- properties

FalsyVals == {Undefined, Str(<< >>)}
ResolvedEmpty == [state |-> "resolved", value |-> "{}"]

IsDryRun(p, data) ==
  /\ p.promise = ResolvedEmpty
  /\ p.xhr = NoXhr
  /\ p.network = << >>
  /\ Len(p.console) = 2
  /\ \A i \in 1..2 : p.console[i].level = "warn"
  /\ p.console[2].data = {data}

\* C1: post with a falsy uri resolves with an empty object, logs data at
\* warning level and sends nothing, so a reporter without a trackerURI does
\* no network I/O in report()
C1_DryRun ==
  /\ \A uri \in FalsyVals : \A r \in DirectResults :
       IsDryRun(post(uri, payload(reporter, r)), payload(reporter, r))
  /\ (reporter.live /\ promise.state # "none" /\ ~Truthy(reporter.trackerURI))
       => /\ promise = ResolvedEmpty
          /\ xhr = NoXhr
          /\ network = << >>
          /\ Len(console) = 2
          /\ \A i \in 1..2 : console[i].level = "warn"
          /\ \E r \in Results : console[2].data = {payload(reporter, r)}

C1_Witness ==
  /\ call.op = "report"
  /\ reporter.trackerURI = Str(<< >>)
  /\ promise = ResolvedEmpty

\* C2: configure overwrites a static field only with a truthy value of
\* opts and leaves it unchanged otherwise; nothing else changes the static
\* fields, and a field once set never becomes falsy again
C2_ConfigureAdditive ==
  [][ /\ call'.op = "configure" =>
           \A f \in Fields :
             A11yReporter'[f] = IF Truthy(call'.opts[f]) THEN call'.opts[f]
                                ELSE A11yReporter[f]
      /\ call'.op # "configure" => A11yReporter' = A11yReporter
      /\ \A f \in Fields : Truthy(A11yReporter[f]) => Truthy(A11yReporter'[f])
    ]_vars

C2_Witness ==
  /\ call.op = "configure"
  /\ call.opts.trackerURI = Str(<< >>)
  /\ Truthy(A11yReporter.trackerURI)
  /\ Truthy(A11yReporter.key)

\* C3: a truthy uri gets one request; once it completes, the promise is
\* resolved exactly when the status is in [200,300) and is otherwise
\* rejected with the request object; no second request follows
C3_SingleAttempt2xx ==
  /\ xhr.state # "none" => Len(network) = 1 /\ Truthy(network[1].uri)
  /\ xhr.state = "sent" => promise.state = "pending"
  /\ xhr.state = "loaded" =>
       /\ (promise.state = "resolved") <=> (200 <= xhr.status /\ xhr.status < 300)
       /\ promise.state # "resolved" => promise = [state |-> "rejected", value |-> "xhr"]

C3_Witness ==
  /\ xhr.state = "loaded"
  /\ xhr.status = 300
  /\ promise.state = "rejected"

\* C4: every transport failure, a network failure without a response
\* included, leaves the promise of post rejected
C4_FailureRejects == xhr.state = "error" => promise.state = "rejected"

Last(seq) == seq[Len(seq)]

\* C5, as claimed: the instance's trackerURI is absent or a non-empty string
\* that does not end in "/"
C5_NoTrailingSlash ==
  reporter.live =>
    \/ reporter.trackerURI = Undefined
    \/ Truthy(reporter.trackerURI) /\ Last(reporter.trackerURI.s) # "/"

\* the value the constructor called last handed to chomp
Chosen == Or(call.opts.trackerURI, A11yReporter.trackerURI)

\* C5, amended: the instance's trackerURI is the chosen value with exactly
\* one trailing "/" removed if it has one: absent when nothing is chosen,
\* empty only for "/", ending in "/" only when the chosen value ends in "//"
C5_ChompOne ==
  call.op = "new" =>
    LET c == Chosen
        r == reporter.trackerURI
    IN /\ c = Undefined <=> r = Undefined
       /\ Truthy(c) =>
            /\ r.t = "string"
            /\ IF Last(c.s) = "/" THEN r.s \o <<"/">> = c.s ELSE r = c
            /\ r.s = << >> <=> c.s = <<"/">>
            /\ (r.s # << >> /\ Last(r.s) = "/") <=>
                 (Len(c.s) >= 2 /\ SubSeq(c.s, Len(c.s) - 1, Len(c.s)) = <<"/", "/">>)

C5_Witness ==
  /\ call.op = "new"
  /\ Chosen = Str(<<"h", "/", "/">>)
  /\ reporter.trackerURI = Str(<<"h", "/">>)

\* C6: after the README's setup, data is posted only when the run is in CI
\* on the master branch
C6_PostsOnlyOnMasterInCI ==
  (registered /\ ~OnMasterInCI) => network = << >>

\* the message the claim gives for n violations
ClaimedMessage(n) ==
  IF n = 1 THEN "1 violation was detected"
  ELSE ToString(n) \o " violations were detected"

\* C7, as claimed: the assertion fails with exactly "<n> violations were
\* detected", or "1 violation was detected"
C7_ExactMessage ==
  failure.stage = "assert" => failure.message = ClaimedMessage(Len(result))

\* C7, amended: when the report fulfils, the invocation passes exactly when
\* there are no violations, and otherwise fails with the message
\* "a11y: " followed by the claimed text
C7_AssertMessage ==
  /\ (pc \in {"passed", "failed"} /\ promise.state = "resolved")
       => /\ (pc = "passed") <=> (Len(result) = 0)
          /\ (pc = "failed") <=> (failure.stage = "assert")
  /\ failure.stage = "assert" =>
       /\ Len(result) > 0
       /\ failure.message = "a11y: " \o ClaimedMessage(Len(result))

C7_Witness ==
  /\ failure.stage = "assert"
  /\ Len(result) = 2
  /\ failure.message = "a11y: 2 violations were detected"

Occurs(e) == \E i \in 1..Len(events) : events[i] = e

\* C8: a rejected report fails the invocation at the report stage with the
\* rejection, and the assertion stage never runs
C8_RejectionFailsAtReport ==
  /\ [](promise.state = "rejected" => ~Occurs("assert"))
  /\ [](failure.stage = "report" =>
          /\ pc = "failed"
          /\ promise.state = "rejected"
          /\ failure.message = promise.value)
  /\ [][(pc = "awaitReport" /\ promise.state = "rejected") =>
          (pc' = "failed" /\ failure'.stage = "report" /\ events' = events)]_vars

C8_Witness ==
  /\ failure.stage = "report"
  /\ Len(result) = 2

\* the events of an invocation that found n violations, up to the return of
\* the report promise
UpToReturn(n) ==
  <<"scan started", "scan completed", "report started">>
    \o [i \in 1..n |-> "log"] \o <<"report returned">>

\* C9: the scan completes, the report is started once, every violation is
\* logged, the report promise is returned, and only after it has settled
\* is the assertion evaluated
C9_Order ==
  /\ pc = "awaitReport" => events = UpToReturn(Len(result))
  /\ pc \in {"passed", "failed"} =>
       events = UpToReturn(Len(result))
                  \o (IF failure.stage = "report" THEN << >> ELSE <<"assert">>)
  /\ pc \in {"awaitReport", "passed", "failed"} =>
       /\ promise.state # "none"
       /\ Len(network) <= 1
       /\ Len(cyLog) = Len(result)
       /\ \A i \in 1..Len(result) : cyLog[i].consoleProps = result[i]
  /\ Occurs("assert") => promise.state = "resolved"

C9_Witness ==
  /\ failure.stage = "report"
  /\ Len(cyLog) = 2
  /\ cyLog[1].message = "color-contrast (3)"
  /\ cyLog[2].name = "a11y/critical"

\* C10: the constructor takes each field from opts when truthy and else
\* from the static fields of that moment; a later configure leaves the
\* instance as it is, and report() posts the instance's own fields to the
\* instance's own destination
C10_ResolvedOnce ==
  /\ [](call.op = "new" =>
          /\ \A f \in {"revision", "project", "key"} :
               reporter[f] = IF Truthy(call.opts[f]) THEN call.opts[f]
                             ELSE A11yReporter[f]
          /\ \/ reporter.trackerURI = Chosen
             \/ /\ Truthy(Chosen)
                /\ reporter.trackerURI.s \o <<"/">> = Chosen.s)
  /\ [][call'.op = "configure" =>
          /\ reporter' = reporter
          /\ <<promise, xhr, network, console>>' = <<promise, xhr, network, console>>
     ]_vars
  /\ [](network # << >> =>
          /\ network[1].uri = Str(reporter.trackerURI.s \o ApiPath)
          /\ \E r \in Results :
               network[1].body = JSONstringify(payload(reporter, r)))

C10_Witness ==
  /\ call.op = "report"
  /\ network # << >>
  /\ reporter.revision = Undefined
  /\ Truthy(A11yReporter.revision)
  /\ A11yReporter.trackerURI = Str(<<"h">>)
  /\ reporter.trackerURI = Str(<<"h", "/">>)

====
